---- MODULE Spec2Model ----
(***************************************************************************)
(* Model of telegram_input.py: the per-conversation request scheduler of   *)
(* telegram_input()/_handle()/start_runner()/runner(), the debounced       *)
(* progress reporter of _make_status_cb() and the chunker and sender of    *)
(* _send_long_text_async().                                                *)
(*                                                                         *)
(* Eight specifications share the module:                                    *)
(*   Spec          the scheduler: inbound updates, the running table, the  *)
(*                 per-key queues and the life cycle of every runner task  *)
(*                 (the awaits of the delivery taken as one position);     *)
(*   SpecStatus    the status reporter of one task: the worker thread      *)
(*                 calling status_cb, the loop's timers and _do_edit, and  *)
(*                 stop_cb called at any moment;                           *)
(*   SpecDelivery  runner() of one task, await by await, from the outcome  *)
(*                 of the reasoning call to the end of the task;           *)
(*   SpecTask      SpecDelivery together with the reporter and the worker  *)
(*                 thread, stop_cb being called where runner() calls it;   *)
(*   SpecChunker   the chunker of _send_long_text_async applied to a text; *)
(*   SpecIntake    _handle from the text extraction of one update to the   *)
(*                 submit step;                                            *)
(*   SpecLoop      the handler of one voice note together with the         *)
(*                 reporter of a task that is in its reasoning call;       *)
(*   SpecVoice     the voice stage of two tasks of one chat, which share   *)
(*                 the queues of the chat's TTSManager.                    *)
(***************************************************************************)
EXTENDS Integers, Sequences, FiniteSets, TLC

(***************************************************************************)
(* Bounds                                                                  *)
(***************************************************************************)
MaxReq == 2

\* status_cb calls the reasoning call makes, and the span of loop.time()
MaxRecords == 4
MaxTicks == 6

\* status_cb calls where the whole runner is modelled with the reporter
MaxTaskRecords == 2

\* chunks of a long answer, and audio segments of one answer
MaxChunks == 2
MaxSegs == 2

\* length of a text handed to the chunker, and its chunk_size
MaxLen == 7
MaxLimit == 5

\* if len(final) < 4000
EditLimit == 4000

\* len(final) of the answers the reasoning call returns
FinalLens == {0, 1, EditLimit - 1, EditLimit, EditLimit + 1}

\* _make_status_cb(..., max_lines=10, min_interval=5)
max_lines == 10
min_interval == 5

Chats == {1, 2}
Users == {1, 2}
Keys == Chats \X Users
Reqs == 1..MaxReq

\* the runner tasks of two requests of one chat; running[chat_id] holds the
\* later one, the earlier one runs on (assemblers[chat_id] is one per chat)
VoiceTasks == {1, 2}

VARIABLES
    nreq,          \* number of inbound updates accepted for inference so far
    reqKey,        \* request -> (chat_id, user_id) of the update (<<0,0>>: none yet)
    hpc,           \* request -> position of the _handle call that took it up
    running,       \* the dict `running`: table key -> task (0: no entry)
    pending,       \* the dict `_pending`: key -> queue of requests
    tpc,           \* request -> position of its runner task
    nxt,           \* task -> the request its finally block popped (0: none)
    busyAtSubmit,  \* history: an unfinished task of the key existed at the check
    outcome,       \* history: what the submit step did with the request
    startedBy,     \* history: who called start_runner for the request
    startSeq,      \* history: requests in the order their tasks were created
    notices,       \* history: task -> number of failure notices issued
    finRuns,       \* history: task -> runs of the finally block
    exitKind,      \* history: task -> how the try block was left
    exceptRaised,  \* task -> an exception left its except block and is in flight
    escaped,       \* history: tasks that ended with an exception set on them
    \* ---- one runner task with its status reporter (SpecStatus, SpecTask)
    history,         \* _make_status_cb: the list `history` (events by number)
    last_edit_at,    \* _make_status_cb: last_edit_at
    pending_handle,  \* _make_status_cb: pending_handle (0: None, else a timer)
    disabled,        \* _make_status_cb: disabled
    timers,          \* loop.call_later handles: timer -> [st, due]
    editq,           \* _do_edit coroutines handed to the loop, not yet started
    inflight,        \* _do_edit coroutines suspended in edit_message_text
    now,             \* loop.time()
    wpc,             \* the worker thread running run_with_meta_context
    recs,            \* status_cb calls made so far
    editsIssued,     \* history: progress edits issued
    lastIssuedLen,   \* history: len(history) when the last edit was rendered
    firstRecAt,      \* history: loop.time() at the first status_cb call
    rpc,             \* runner(): the await the task is suspended in
    result,          \* what run_with_meta_context returned ("none": not yet)
    chunksLeft,      \* _send_long_text_async: chunks still to send
    errNotices,      \* history: failure notices issued by the task
    failed,          \* history: the steps of the task that raised
    cancelled,       \* history: CancelledError was thrown into the task
    cancelledAt,     \* history: the await it was thrown into ("none": not thrown)
    finalLen,        \* len(final)
    nchunks,         \* _send_long_text_async: len(chunks)
    emitted,         \* history: the transport calls the task made, in order
    pinned,          \* messages pinned and not unpinned (0: the placeholder, i: chunk i)
    oggq,            \* what was drained from tts._ogg_q: sizes of the segment files
    clip,            \* history: the segments in the voice file handed to send_voice
    tmpfiles,        \* temporary audio files on disk (i: segment i, 0: the merged clip)
    \* ---- the chunker of _send_long_text_async (SpecChunker)
    cpc,             \* "idle", or "chunked" once the chunk list is built
    ctext,           \* the argument text
    climit,          \* the argument chunk_size
    cchunks,         \* the list `chunks`
    \* ---- _handle before the submit step (SpecIntake)
    ipc,             \* position of the handler ("idle": no update yet)
    chat_type,       \* update.effective_chat.type
    has_voice,       \* msg.voice
    mtext,           \* the local `text`
    mention,         \* the message mentions the bot
    reply_to_bot,    \* the message replies to a message of the bot
    voiceFailed,     \* history: the step of the voice intake that raised
    voiceNotices,    \* history: voice-note error notices issued
    \* ---- two runner tasks of one chat and the chat's TTSManager (SpecVoice)
    vpc,             \* task -> the position of its runner
    file_q,          \* tts._file_q: the task each pending text item came from
    ogg_q,           \* tts._ogg_q: the task each segment file was made for
    unfinished,      \* tts._file_q.unfinished_tasks
    taskOggs,         \* task -> the list `oggs` it drained
    robbed           \* history: unfinished tasks another task removed items of

schedVars == <<nreq, reqKey, hpc, running, pending, tpc, nxt, busyAtSubmit,
               outcome, startedBy, startSeq, notices, finRuns, exitKind,
               exceptRaised, escaped>>

statusVars == <<history, last_edit_at, pending_handle, disabled, timers, editq,
                inflight, now, wpc, recs, editsIssued, lastIssuedLen,
                firstRecAt>>

taskVars == <<rpc, result, chunksLeft, errNotices, failed, cancelled,
              cancelledAt, finalLen, nchunks, emitted, pinned, oggq, clip,
              tmpfiles>>

chunkVars == <<cpc, ctext, climit, cchunks>>

intakeVars == <<ipc, chat_type, has_voice, mtext, mention, reply_to_bot,
                voiceFailed, voiceNotices>>

voiceVars == <<vpc, file_q, ogg_q, unfinished, taskOggs, robbed>>

vars == <<schedVars, statusVars, taskVars, chunkVars, intakeVars, voiceVars>>

(***************************************************************************)
(* The running table.  Python never finds an int key under a tuple key,    *)
(* so the int key chat_id is written <<chat, 0>> (no user id is 0) and the *)
(* tuple key (chat_id, user_id) is written <<chat, user>>.                 *)
(***************************************************************************)
TableKeys == Chats \X ({0} \cup Users)

\* key = (chat_id, user_id); running.get(key)
RunningLookupKey(chat, user) == <<chat, user>>

\* running[chat_id] = loop.create_task(runner())
RunningWriteKey(chat, user) == <<chat, 0>>

\* running.pop(chat_id, None)
RunningPopKey(chat, user) == <<chat, 0>>

\* Task.done()
TaskDone(t) == tpc[t] = "done"

\* a runner task of request t exists and has not finished
Unfinished(t) == tpc[t] \notin {"none", "done"}

\* (prev := running.get(key)) and not prev.done().  Tasks are stored under
\* RunningWriteKey and looked up under RunningLookupKey.
PrevBusy(k) ==
    LET prev == running[RunningLookupKey(k[1], k[2])]
    IN  prev # 0 /\ ~TaskDone(prev)

Timers == 1..MaxRecords

NoTimer == [st |-> "unused", due |-> 0]

\* the closure of _make_status_cb as it is returned, a loop whose clock has
\* run for at least min_interval, and the reasoning call just dispatched
StatusInit ==
    /\ history = <<>>
    /\ last_edit_at = 0
    /\ pending_handle = 0
    /\ disabled = FALSE
    /\ timers = [h \in Timers |-> NoTimer]
    /\ editq = 0
    /\ inflight = 0
    /\ now = min_interval
    /\ wpc = "reasoning"
    /\ recs = 0
    /\ editsIssued = 0
    /\ lastIssuedLen = 0
    /\ firstRecAt = 0

\* two updates of one chat have each had their placeholder sent and their
\* runner task created; the queues of the chat's TTSManager are empty
VoiceInit ==
    /\ vpc = [t \in VoiceTasks |-> "created"]
    /\ file_q = <<>>
    /\ ogg_q = <<>>
    /\ unfinished = 0
    /\ taskOggs = [t \in VoiceTasks |-> <<>>]
    /\ robbed = {}

\* the runner of the task has dispatched the reasoning call
TaskInit ==
    /\ rpc = "reasoning"
    /\ result = "none"
    /\ chunksLeft = 0
    /\ errNotices = 0
    /\ failed = {}
    /\ cancelled = FALSE
    /\ cancelledAt = "none"
    /\ finalLen = 0
    /\ nchunks = 0
    /\ emitted = <<>>
    /\ pinned = {}
    /\ oggq = <<>>
    /\ clip = <<>>
    /\ tmpfiles = {}

\* _send_long_text_async has not been called
ChunkerInit ==
    /\ cpc = "idle"
    /\ ctext = <<>>
    /\ climit = 1
    /\ cchunks = <<>>

\* no update has arrived
IntakeInit ==
    /\ ipc = "idle"
    /\ chat_type = "private"
    /\ has_voice = FALSE
    /\ mtext = ""
    /\ mention = FALSE
    /\ reply_to_bot = FALSE
    /\ voiceFailed = "none"
    /\ voiceNotices = 0

Init ==
    /\ StatusInit
    /\ TaskInit
    /\ ChunkerInit
    /\ IntakeInit
    /\ VoiceInit
    /\ nreq = 0
    /\ reqKey = [r \in Reqs |-> <<0, 0>>]
    /\ hpc = [r \in Reqs |-> "none"]
    /\ running = [tk \in TableKeys |-> 0]
    /\ pending = [k \in Keys |-> <<>>]
    /\ tpc = [r \in Reqs |-> "none"]
    /\ nxt = [r \in Reqs |-> 0]
    /\ busyAtSubmit = [r \in Reqs |-> FALSE]
    /\ outcome = [r \in Reqs |-> "none"]
    /\ startedBy = [r \in Reqs |-> "none"]
    /\ startSeq = <<>>
    /\ notices = [r \in Reqs |-> 0]
    /\ finRuns = [r \in Reqs |-> 0]
    /\ exitKind = [r \in Reqs |-> "none"]
    /\ exceptRaised = [r \in Reqs |-> FALSE]
    /\ escaped = {}

(***************************************************************************)
(* _handle.  Positions of a call: "notice" (awaiting the send of the       *)
(* "still working" notice), "placeholder" (in start_runner, awaiting the   *)
(* send of the placeholder), "returned", "raised".                         *)
(***************************************************************************)

\* the handlers of two updates run concurrently (concurrent_updates(True))
HandlerConcurrent == TRUE

\* The Application is built without concurrent_updates and _handle awaits
\* start_runner: the next update is taken up only when the handler of the
\* previous one has returned or raised.
HandlerFree == \A r \in Reqs : hpc[r] \notin {"notice", "placeholder"}

\* _handle up to its first await after step 9: the queue is fetched, the
\* running table is consulted, and either the "still working" notice or the
\* placeholder of start_runner is being sent.
Inbound(k) ==
    /\ HandlerFree
    /\ nreq < MaxReq
    /\ LET r == nreq + 1 IN
        /\ nreq' = r
        /\ reqKey' = [reqKey EXCEPT ![r] = k]
        /\ busyAtSubmit' = [busyAtSubmit EXCEPT ![r] =
                               \E t \in Reqs : Unfinished(t) /\ reqKey[t] = k]
        /\ hpc' = [hpc EXCEPT ![r] = IF PrevBusy(k) THEN "notice" ELSE "placeholder"]
    /\ UNCHANGED <<running, pending, tpc, nxt, outcome, startedBy, startSeq,
                   notices, finRuns, exitKind, exceptRaised, escaped>>

\* running[chat_id] = loop.create_task(runner()), for request r started by `who`
CreateTask(r, who, tpcBase) ==
    LET k == reqKey[r] IN
    /\ running' = [running EXCEPT ![RunningWriteKey(k[1], k[2])] = r]
    /\ tpc' = [tpcBase EXCEPT ![r] = "created"]
    /\ startSeq' = Append(startSeq, r)
    /\ startedBy' = [startedBy EXCEPT ![r] = who]

\* the transport call the handler of request r awaits returns (ok) or raises
HandlerResume(r, ok) ==
    /\ hpc[r] \in {"notice", "placeholder"}
    /\ hpc' = [hpc EXCEPT ![r] = IF ok THEN "returned" ELSE "raised"]
    /\ CASE hpc[r] = "notice" /\ ok ->
              \* await queue.put((user_text, trigger_id)); return
              /\ pending' = [pending EXCEPT ![reqKey[r]] = Append(@, r)]
              /\ outcome' = [outcome EXCEPT ![r] = "QUEUED"]
              /\ UNCHANGED <<running, tpc, startSeq, startedBy>>
         [] hpc[r] = "placeholder" /\ ok ->
              /\ CreateTask(r, "submit", tpc)
              /\ outcome' = [outcome EXCEPT ![r] = "STARTED_NOW"]
              /\ UNCHANGED pending
         [] OTHER ->
              \* the send raised: the request is neither queued nor started
              /\ outcome' = [outcome EXCEPT ![r] = "dropped"]
              /\ UNCHANGED <<running, pending, tpc, startSeq, startedBy>>
    /\ UNCHANGED <<nreq, reqKey, nxt, busyAtSubmit, notices, finRuns, exitKind,
                   exceptRaised, escaped>>

(***************************************************************************)
(* runner(): the task of one request.  Positions are its await points:     *)
(*   created     scheduled by create_task, body not yet entered            *)
(*   reasoning   await asyncio.to_thread(run_with_meta_context, ...)        *)
(*   deleting    empty answer: await delete_message(placeholder)           *)
(*   delivering  the awaits of the text and voice delivery                 *)
(*   notifying   except Exception: await send_message("Error: ...")        *)
(*   cancelnote  except CancelledError: await edit_message_text(...)       *)
(*   chaining    finally: await start_runner(nxt, nxt_id)                  *)
(***************************************************************************)

\* a return statement inside finally leaves the function normally
\* and the exception in flight is kept
ReturnPropagates == FALSE

\* except asyncio.QueueEmpty: return, inside the finally block: the return
\* discards the exception that was in flight when finally was entered
ReturnSwallows == TRUE

\* the finally block up to its first await; exc: it is entered with an
\* exception in flight (one that left an except block)
Finally(t, exc) ==
    LET k == reqKey[t] IN
    /\ running' = [running EXCEPT ![RunningPopKey(k[1], k[2])] = 0]
    /\ finRuns' = [finRuns EXCEPT ![t] = @ + 1]
    /\ exceptRaised' = [exceptRaised EXCEPT ![t] = exc]
    /\ IF pending[k] = <<>>
       THEN \* except asyncio.QueueEmpty: return
            /\ tpc' = [tpc EXCEPT ![t] = "done"]
            /\ escaped' = IF exc /\ ~ReturnSwallows THEN escaped \cup {t} ELSE escaped
            /\ UNCHANGED <<pending, nxt>>
       ELSE \* nxt, nxt_id = queue.get_nowait(); await start_runner(nxt, nxt_id)
            /\ pending' = [pending EXCEPT ![k] = Tail(@)]
            /\ nxt' = [nxt EXCEPT ![t] = Head(pending[k])]
            /\ tpc' = [tpc EXCEPT ![t] = "chaining"]
            /\ UNCHANGED escaped

\* the loop runs the task's first step: the TTS queues are cleared and the
\* reasoning call is handed to a worker thread
TaskFirstStep(t) ==
    /\ tpc[t] = "created"
    /\ tpc' = [tpc EXCEPT ![t] = "reasoning"]
    /\ UNCHANGED <<nreq, reqKey, hpc, running, pending, nxt, busyAtSubmit,
                   outcome, startedBy, startSeq, notices, finRuns, exitKind,
                   exceptRaised, escaped>>

\* except Exception as e: await send_message("Error: {e}", reply_to=reply_to_id)
ExceptException(t) ==
    /\ tpc' = [tpc EXCEPT ![t] = "notifying"]
    /\ notices' = [notices EXCEPT ![t] = @ + 1]

\* an error is raised inside the try block
RaiseInTry(t) ==
    /\ exitKind' = [exitKind EXCEPT ![t] = "error"]
    /\ ExceptException(t)

\* run_with_meta_context returns an answer, returns nothing, or raises
ReasoningDone(t, out) ==
    /\ tpc[t] = "reasoning"
    /\ CASE out = "answer" ->
              /\ tpc' = [tpc EXCEPT ![t] = "delivering"]
              /\ UNCHANGED <<notices, exitKind>>
         [] out = "empty" ->
              /\ tpc' = [tpc EXCEPT ![t] = "deleting"]
              /\ UNCHANGED <<notices, exitKind>>
         [] OTHER -> RaiseInTry(t)
    /\ UNCHANGED <<nreq, reqKey, hpc, running, pending, nxt, busyAtSubmit,
                   outcome, startedBy, startSeq, finRuns, exceptRaised, escaped>>

\* the call the task awaits returns (ok) or raises (~ok)
TaskResume(t, ok) ==
    /\ tpc[t] \in {"deleting", "delivering", "notifying", "cancelnote", "chaining"}
    /\ CASE tpc[t] = "delivering" /\ ~ok ->
              /\ RaiseInTry(t)
              /\ UNCHANGED <<running, pending, nxt, finRuns, startSeq, startedBy,
                             exceptRaised, escaped>>
         [] tpc[t] \in {"deleting", "delivering"} ->
              \* delete_message is wrapped in try/except: pass
              /\ exitKind' = [exitKind EXCEPT ![t] = "return"]
              /\ Finally(t, FALSE)
              /\ UNCHANGED <<notices, startSeq, startedBy>>
         [] tpc[t] = "notifying" ->
              \* the send of the failure notice returns, or raises inside
              \* the except block; either way the finally block is next
              /\ Finally(t, ~ok)
              /\ UNCHANGED <<notices, exitKind, startSeq, startedBy>>
         [] tpc[t] = "cancelnote" ->
              \* the edit is wrapped in try/except: pass
              /\ Finally(t, FALSE)
              /\ UNCHANGED <<notices, exitKind, startSeq, startedBy>>
         [] OTHER ->
              \* start_runner: the placeholder of the popped request was sent
              \* and the finally block ends, re-raising what was in flight;
              \* or the send raised and the popped request is gone
              /\ IF ok THEN /\ CreateTask(nxt[t], "completion", [tpc EXCEPT ![t] = "done"])
                            /\ escaped' = IF exceptRaised[t] THEN escaped \cup {t}
                                                             ELSE escaped
                       ELSE /\ tpc' = [tpc EXCEPT ![t] = "done"]
                            /\ escaped' = escaped \cup {t}
                            /\ UNCHANGED <<running, startSeq, startedBy>>
              /\ UNCHANGED <<pending, nxt, notices, finRuns, exitKind, exceptRaised>>
    /\ UNCHANGED <<nreq, reqKey, hpc, busyAtSubmit, outcome>>

\* Task.cancel(): CancelledError is thrown into the task where it is suspended
TaskCancel(t) ==
    /\ Unfinished(t)
    /\ CASE tpc[t] = "created" ->
              \* thrown into a coroutine that has not started: the try
              \* statement is never entered
              /\ tpc' = [tpc EXCEPT ![t] = "done"]
              /\ exitKind' = [exitKind EXCEPT ![t] = "cancelled"]
              /\ UNCHANGED <<running, pending, nxt, finRuns, exceptRaised, escaped>>
         [] tpc[t] \in {"reasoning", "delivering"} ->
              \* except asyncio.CancelledError: await edit_message_text(...)
              /\ tpc' = [tpc EXCEPT ![t] = "cancelnote"]
              /\ exitKind' = [exitKind EXCEPT ![t] = "cancelled"]
              /\ UNCHANGED <<running, pending, nxt, finRuns, exceptRaised, escaped>>
         [] tpc[t] = "deleting" ->
              \* the bare except around delete_message swallows it
              /\ exitKind' = [exitKind EXCEPT ![t] = "return"]
              /\ Finally(t, FALSE)
         [] tpc[t] = "notifying" ->
              \* the CancelledError leaves the except block
              /\ Finally(t, TRUE)
              /\ UNCHANGED exitKind
         [] tpc[t] = "cancelnote" ->
              \* the bare except around the edit swallows it
              /\ Finally(t, FALSE)
              /\ UNCHANGED exitKind
         [] OTHER ->
              \* in the finally block, awaiting start_runner: the task ends
              \* cancelled
              /\ tpc' = [tpc EXCEPT ![t] = "done"]
              /\ UNCHANGED <<running, pending, nxt, finRuns, exitKind,
                             exceptRaised, escaped>>
    /\ UNCHANGED <<nreq, reqKey, hpc, busyAtSubmit, outcome, startedBy,
                   startSeq, notices>>

Next ==
    \/ \E k \in Keys : Inbound(k) /\ UNCHANGED <<statusVars, taskVars, chunkVars, intakeVars, voiceVars>>
    \/ \E r \in Reqs, ok \in BOOLEAN : HandlerResume(r, ok) /\ UNCHANGED <<statusVars, taskVars, chunkVars, intakeVars, voiceVars>>
    \/ \E t \in Reqs : TaskFirstStep(t) /\ UNCHANGED <<statusVars, taskVars, chunkVars, intakeVars, voiceVars>>
    \/ \E t \in Reqs, out \in {"answer", "empty", "raise"} :
           ReasoningDone(t, out) /\ UNCHANGED <<statusVars, taskVars, chunkVars, intakeVars, voiceVars>>
    \/ \E t \in Reqs, ok \in BOOLEAN : TaskResume(t, ok) /\ UNCHANGED <<statusVars, taskVars, chunkVars, intakeVars, voiceVars>>
    \/ \E t \in Reqs : TaskCancel(t) /\ UNCHANGED <<statusVars, taskVars, chunkVars, intakeVars, voiceVars>>

(***************************************************************************)
(* _make_status_cb: the status reporter of one task.  status_cb runs on    *)
(* the worker thread of the reasoning call; _do_edit, the timer callback   *)
(* and stop_cb run on the event loop.  The two threads interleave between  *)
(* the steps below.                                                        *)
(***************************************************************************)
Max(a, b) == IF a >= b THEN a ELSE b

\* "\n".join(history[-max_lines:]): the events one edit shows
Rendered(h) == SubSeq(h, Max(1, Len(h) - max_lines + 1), Len(h))

\* status_cb: the disabled test and history.append (at most `limit` calls)
StatusCb(limit) ==
    /\ wpc = "reasoning"
    /\ recs < limit
    /\ recs' = recs + 1
    /\ firstRecAt' = IF recs = 0 THEN now ELSE firstRecAt
    /\ IF disabled
       THEN UNCHANGED <<history, wpc>>
       ELSE /\ history' = Append(history, recs + 1)
            /\ wpc' = "sched"
    /\ UNCHANGED <<last_edit_at, pending_handle, disabled, timers, editq,
                   inflight, now, editsIssued, lastIssuedLen>>

\* _schedule_edit: if disabled or pending_handle: return
ScheduleGuard ==
    /\ wpc = "sched"
    /\ wpc' = IF disabled \/ pending_handle # 0 THEN "reasoning" ELSE "act"
    /\ UNCHANGED <<history, last_edit_at, pending_handle, disabled, timers, editq,
                   inflight, now, recs, editsIssued, lastIssuedLen, firstRecAt>>

\* delay = max(min_interval - (loop.time() - last_edit_at), 0.0)
Delay == Max(min_interval - (now - last_edit_at), 0)

\* the first timer not yet handed out
FreshTimer == CHOOSE h \in Timers : timers[h].st = "unused" /\
                  \A g \in Timers : g < h => timers[g].st # "unused"

\* _schedule_edit: run _do_edit at once, or arm a timer and keep its handle.
\* call_later is called on the worker thread; the loop runs the timer at its
\* due time or any time later (TimerFire).
ScheduleEdit ==
    /\ wpc = "act"
    /\ wpc' = "reasoning"
    /\ IF Delay <= 0
       THEN /\ editq' = editq + 1
            /\ UNCHANGED <<pending_handle, timers>>
       ELSE /\ timers' = [timers EXCEPT ![FreshTimer] =
                             [st |-> "armed", due |-> now + Delay]]
            /\ pending_handle' = FreshTimer
            /\ UNCHANGED editq
    /\ UNCHANGED <<history, last_edit_at, disabled, inflight, now, recs,
                   editsIssued, lastIssuedLen, firstRecAt>>

\* the loop thread is not inside a blocking call: it is while runner() is in
\* subprocess.run(["ffmpeg", ...]) for the merge, and while _handle is in
\* subprocess.run(["ffmpeg", ...]) and _WHISPER.transcribe for a voice note
LoopFree == rpc # "merge" /\ ipc # "transcode"

\* the loop runs a due timer: lambda: run_coroutine_threadsafe(_do_edit(), loop)
TimerFire(h) ==
    /\ LoopFree
    /\ timers[h].st = "armed"
    /\ now >= timers[h].due
    /\ timers' = [timers EXCEPT ![h] = [st |-> "fired", due |-> 0]]
    /\ editq' = editq + 1
    /\ UNCHANGED <<history, last_edit_at, pending_handle, disabled, inflight, now,
                   wpc, recs, editsIssued, lastIssuedLen, firstRecAt>>

\* _do_edit finds the reporter enabled whatever `disabled` says
DoEditNeverDisabled == FALSE

\* _do_edit: if disabled: return
DoEditDisabled == disabled

\* _do_edit up to its await: nothing when disabled, else the view is rendered
\* and edit_message_text is called
DoEditStart ==
    /\ LoopFree
    /\ editq > 0
    /\ editq' = editq - 1
    /\ IF DoEditDisabled
       THEN UNCHANGED <<inflight, editsIssued, lastIssuedLen>>
       ELSE /\ inflight' = inflight + 1
            /\ editsIssued' = editsIssued + 1
            /\ lastIssuedLen' = Len(history)
    /\ UNCHANGED <<history, last_edit_at, pending_handle, disabled, timers, now,
                   wpc, recs, firstRecAt>>

\* _do_edit after its await (the edit returned, or raised and was swallowed)
DoEditFinish ==
    /\ LoopFree
    /\ inflight > 0
    /\ inflight' = inflight - 1
    /\ last_edit_at' = now
    /\ pending_handle' = 0
    /\ UNCHANGED <<history, disabled, timers, editq, now, wpc, recs, editsIssued,
                   lastIssuedLen, firstRecAt>>

\* stop_cb
StopCb ==
    /\ disabled' = TRUE
    /\ IF pending_handle # 0 /\ timers[pending_handle].st # "cancelled"
       THEN /\ timers' = [timers EXCEPT ![pending_handle] =
                             [st |-> "cancelled", due |-> 0]]
            /\ pending_handle' = 0
       ELSE UNCHANGED <<timers, pending_handle>>

\* a caller on the loop stops the reporter
Stop ==
    /\ ~disabled
    /\ StopCb
    /\ UNCHANGED <<history, last_edit_at, editq, inflight, now, wpc, recs,
                   editsIssued, lastIssuedLen, firstRecAt>>

\* loop.time() advances
Tick ==
    /\ now < min_interval + MaxTicks
    /\ now' = now + 1
    /\ UNCHANGED <<history, last_edit_at, pending_handle, disabled, timers, editq,
                   inflight, wpc, recs, editsIssued, lastIssuedLen, firstRecAt>>

NextStatus ==
    \/ StatusCb(MaxRecords) /\ UNCHANGED <<schedVars, taskVars, chunkVars, intakeVars, voiceVars>>
    \/ ScheduleGuard /\ UNCHANGED <<schedVars, taskVars, chunkVars, intakeVars, voiceVars>>
    \/ ScheduleEdit /\ UNCHANGED <<schedVars, taskVars, chunkVars, intakeVars, voiceVars>>
    \/ \E h \in Timers : TimerFire(h) /\ UNCHANGED <<schedVars, taskVars, chunkVars, intakeVars, voiceVars>>
    \/ DoEditStart /\ UNCHANGED <<schedVars, taskVars, chunkVars, intakeVars, voiceVars>>
    \/ DoEditFinish /\ UNCHANGED <<schedVars, taskVars, chunkVars, intakeVars, voiceVars>>
    \/ Tick /\ UNCHANGED <<schedVars, taskVars, chunkVars, intakeVars, voiceVars>>
    \/ Stop /\ UNCHANGED <<schedVars, taskVars, chunkVars, intakeVars, voiceVars>>

SpecStatus == Init /\ [][NextStatus]_vars

(***************************************************************************)
(* runner() of one task in detail, with the worker thread of its reasoning *)
(* call and its status reporter.  Positions are the awaits of runner():    *)
(*   reasoning    asyncio.to_thread(run_with_meta_context, ...)            *)
(*   del_empty    delete_message(placeholder), empty answer                *)
(*   edit_final   edit_message_text(placeholder, final)                    *)
(*   pin, sleep, unpin       the small reply's pin / sleep(1) / unpin      *)
(*   del_large    delete_message(placeholder), long answer                 *)
(*   send_chunk, pin_chunk, unpin_chunk     _send_long_text_async          *)
(*   tts_join     asyncio.to_thread(tts._file_q.join)                      *)
(*   merge        no await: the loop thread is in subprocess.run(ffmpeg)   *)
(*   send_voice   send_voice(...)                                          *)
(*   notifying    except Exception: send_message("Error: ...")             *)
(*   cancelnote   except CancelledError: edit_message_text(...)            *)
(***************************************************************************)

\* an answer of exactly 4000 characters is edited into the placeholder
RouteInclusive(len, blank) ==
    IF blank THEN "empty"
    ELSE IF len <= EditLimit THEN "small" ELSE "large"

\* if not final or not final.strip(); if len(final) < 4000; else
Route(len, blank) ==
    IF blank THEN "empty"
    ELSE IF len < EditLimit THEN "small" ELSE "large"

\* run_with_meta_context returns (an answer of `len` characters, blank or not,
\* which the chunker would cut into n chunks) or raises, on the worker thread
WorkerReturn(raised, len, blank, n) ==
    /\ wpc = "reasoning"
    /\ len = 0 => blank
    /\ wpc' = "returned"
    /\ result' = IF raised THEN "raise" ELSE Route(len, blank)
    /\ finalLen' = IF raised THEN 0 ELSE len
    /\ nchunks' = IF ~raised /\ Route(len, blank) = "large" THEN n ELSE 0
    /\ chunksLeft' = nchunks'
    /\ UNCHANGED <<history, last_edit_at, pending_handle, disabled, timers, editq,
                   inflight, now, recs, editsIssued, lastIssuedLen, firstRecAt, rpc, errNotices, failed, cancelled,
                   cancelledAt, emitted, pinned, oggq, clip, tmpfiles>>

\* the awaits of runner() that call the transport
Calls == {"del_empty", "edit_final", "pin", "unpin", "del_large", "send_chunk",
          "pin_chunk", "unpin_chunk", "send_voice", "notifying", "cancelnote"}

\* the calls that pass reply_to_message_id = reply_to_id
RepliesToTrigger == {"send_chunk", "send_voice", "notifying"}

\* the message a call is about: 0 the placeholder, i the i-th chunk
MsgOf(pos, left) ==
    IF pos \in {"send_chunk", "pin_chunk", "unpin_chunk"} THEN nchunks - left + 1 ELSE 0

\* the call made when the runner suspends in position pos
CallAt(pos, left) ==
    [op |-> pos, msg |-> MsgOf(pos, left), reply |-> pos \in RepliesToTrigger]

\* the runner suspends in its next await: the call of that await is made
Emit ==
    emitted' = IF rpc' \in Calls THEN Append(emitted, CallAt(rpc', chunksLeft'))
               ELSE emitted

\* the error is swallowed without a notice
ExceptSilent ==
    /\ rpc' = "notifying"
    /\ errNotices' = errNotices

\* except Exception as e: await send_message("Error: {e}", reply_to=reply_to_id)
ExceptHandler ==
    /\ rpc' = "notifying"
    /\ errNotices' = errNotices + 1

\* step `what` of the try block raises
Raise(what) ==
    /\ failed' = failed \cup {what}
    /\ ExceptHandler

\* the loop resumes the runner with the outcome of the reasoning call:
\* it raises, or stop_status() and the branch on the answer
RunnerAfterReasoning ==
    /\ rpc = "reasoning"
    /\ wpc = "returned"
    /\ IF result = "raise"
       THEN /\ Raise("reasoning")
            /\ UNCHANGED <<disabled, timers, pending_handle>>
       ELSE /\ StopCb
            /\ rpc' = CASE result = "empty" -> "del_empty"
                        [] result = "small" -> "edit_final"
                        [] OTHER -> "del_large"
            /\ UNCHANGED <<errNotices, failed>>
    /\ Emit
    /\ UNCHANGED <<history, last_edit_at, editq, inflight, now, wpc, recs,
                   editsIssued, lastIssuedLen, firstRecAt, result,
                   chunksLeft, cancelled, cancelledAt, finalLen, nchunks, pinned,
                   oggq, clip, tmpfiles>>

\* for part in chunks: the next chunk, or on to the voice reply
NextChunk(left) ==
    /\ chunksLeft' = left
    /\ rpc' = IF left > 0 THEN "send_chunk" ELSE "tts_join"

\* every transport call of the try block raises into except Exception
UnguardedAll == {"del_empty", "edit_final", "pin", "unpin", "del_large",
                 "send_chunk", "pin_chunk", "unpin_chunk", "send_voice"}

\* the transport calls of the try block that are in no inner try statement
Unguarded == {"edit_final", "pin", "unpin", "send_chunk", "send_voice"}

\* pin_chat_message / unpin_chat_message returned
Pinned(ok) ==
    CASE rpc \in {"pin", "pin_chunk"} /\ ok -> pinned \cup {MsgOf(rpc, chunksLeft)}
      [] rpc \in {"unpin", "unpin_chunk"} /\ ok -> pinned \ {MsgOf(rpc, chunksLeft)}
      [] OTHER -> pinned

\* the transport call the runner awaits returns (ok) or raises (~ok)
RunnerResume(ok) ==
    /\ rpc \in {"del_empty", "edit_final", "pin", "sleep", "unpin", "del_large",
                "send_chunk", "pin_chunk", "unpin_chunk", "send_voice",
                "notifying", "cancelnote"}
    /\ rpc = "sleep" => ok
    /\ CASE rpc \in Unguarded /\ ~ok ->
              /\ Raise(rpc)
              /\ UNCHANGED chunksLeft
         [] rpc = "edit_final" -> rpc' = "pin" /\ UNCHANGED <<chunksLeft, errNotices, failed>>
         [] rpc = "pin" -> rpc' = "sleep" /\ UNCHANGED <<chunksLeft, errNotices, failed>>
         [] rpc = "sleep" -> rpc' = "unpin" /\ UNCHANGED <<chunksLeft, errNotices, failed>>
         [] rpc = "unpin" -> rpc' = "tts_join" /\ UNCHANGED <<chunksLeft, errNotices, failed>>
         [] rpc = "del_large" ->
              \* try: await delete_message(...) except: pass
              /\ NextChunk(chunksLeft)
              /\ failed' = IF ok THEN failed ELSE failed \cup {rpc}
              /\ UNCHANGED errNotices
         [] rpc = "send_chunk" -> rpc' = "pin_chunk" /\ UNCHANGED <<chunksLeft, errNotices, failed>>
         [] rpc = "pin_chunk" /\ ok ->
              rpc' = "unpin_chunk" /\ UNCHANGED <<chunksLeft, errNotices, failed>>
         [] rpc \in {"pin_chunk", "unpin_chunk"} ->
              \* except Exception: logger.warning(...)
              /\ NextChunk(chunksLeft - 1)
              /\ failed' = IF ok THEN failed ELSE failed \cup {rpc}
              /\ UNCHANGED errNotices
         [] OTHER ->
              \* del_empty (try/except: pass), send_voice, notifying, cancelnote:
              \* the finally block is next
              /\ rpc' = "done"
              /\ failed' = IF ok THEN failed ELSE failed \cup {rpc}
              /\ UNCHANGED <<chunksLeft, errNotices>>
    /\ Emit
    /\ pinned' = Pinned(ok)
    /\ UNCHANGED <<statusVars, result, cancelled, cancelledAt, finalLen, nchunks,
                   oggq, clip, tmpfiles>>

\* what tts._ogg_q can hold when tts._file_q.join() returns: the sizes of the
\* segment files, in the order they were produced (segment i is the i-th)
SegQueues == UNION {[1..n -> {0, 1}] : n \in 0..MaxSegs}

\* every drained path is kept, whatever the size of its file
OggsAll(q) == [i \in 1..Len(q) |-> i]

\* p = tts._ogg_q.get_nowait(); if os.path.getsize(p) > 0: oggs.append(p)
Oggs(q) == SelectSeq([i \in 1..Len(q) |-> i], LAMBDA i : q[i] > 0)

RECURSIVE Concat(_)
\* ffmpeg -i p0 -i p1 ... -filter_complex "[0:a][1:a]...concat=n=N:v=0:a=1":
\* the audio of the inputs, one after the other in argument order
Concat(oggs) == IF oggs = <<>> THEN <<>> ELSE <<Head(oggs)>> \o Concat(Tail(oggs))

\* the file opened for send_voice: oggs[0] itself, or the merged clip
VoiceFile(oggs) == IF Len(oggs) = 1 THEN <<oggs[1]>> ELSE Concat(oggs)

\* tts._file_q.join() is over: the segments are drained from tts._ogg_q,
\* none -> no voice reply, one -> opened and sent as it is (ok: getsize and
\* open succeed), several -> the loop enters subprocess.run(ffmpeg ...)
RunnerVoice(q, ok) ==
    /\ rpc = "tts_join"
    /\ Len(Oggs(q)) # 1 => ok
    /\ oggq' = q
    /\ tmpfiles' = tmpfiles \cup {i \in 1..Len(q) : TRUE}
    /\ CASE Oggs(q) = <<>> -> rpc' = "done" /\ UNCHANGED <<errNotices, failed, clip>>
         [] Len(Oggs(q)) > 1 -> rpc' = "merge" /\ UNCHANGED <<errNotices, failed, clip>>
         [] ~ok -> /\ Raise("open_voice")
                   /\ UNCHANGED clip
         [] OTHER -> /\ rpc' = "send_voice"
                     /\ clip' = VoiceFile(Oggs(q))
                     /\ UNCHANGED <<errNotices, failed>>
    /\ Emit
    /\ UNCHANGED <<statusVars, result, chunksLeft, cancelled, cancelledAt,
                   finalLen, nchunks, pinned>>

\* subprocess.run(..., check=False): a failed ffmpeg run raises nothing
CheckFalse == FALSE

\* subprocess.run(..., check=True): a failed ffmpeg run raises CalledProcessError
CheckTrue == TRUE

\* subprocess.run returns on the loop thread: ffmpeg has written the merged
\* clip (ok) or has failed; then the clip is opened for send_voice
MergeDone(ok) ==
    /\ rpc = "merge"
    /\ tmpfiles' = IF ok THEN tmpfiles \cup {0} ELSE tmpfiles
    /\ IF ~ok /\ CheckTrue
       THEN /\ Raise("merge")
            /\ UNCHANGED clip
       ELSE /\ rpc' = "send_voice"
            /\ clip' = IF ok THEN VoiceFile(Oggs(oggq)) ELSE <<>>
            /\ failed' = IF ok THEN failed ELSE failed \cup {"merge"}
            /\ UNCHANGED errNotices
    /\ Emit
    /\ UNCHANGED <<statusVars, result, chunksLeft, cancelled, cancelledAt,
                   finalLen, nchunks, pinned, oggq>>

\* Task.cancel(): CancelledError is thrown into runner() where it is suspended
RunnerCancel ==
    /\ rpc \notin {"done", "merge"}
    /\ CASE rpc \in {"del_empty", "notifying", "cancelnote"} ->
              \* swallowed by a bare except, or raised outside the try block
              /\ rpc' = "done"
              /\ UNCHANGED chunksLeft
         [] rpc = "del_large" ->
              \* swallowed by the bare except around delete_message
              NextChunk(chunksLeft)
         [] OTHER ->
              \* except asyncio.CancelledError: await edit_message_text(...)
              /\ rpc' = "cancelnote"
              /\ UNCHANGED chunksLeft
    /\ cancelled' = TRUE
    /\ cancelledAt' = IF cancelledAt = "none" THEN rpc ELSE cancelledAt
    /\ Emit
    /\ UNCHANGED <<statusVars, result, errNotices, failed, finalLen, nchunks,
                   pinned, oggq, clip, tmpfiles>>

\* one empty, one short and one long answer
TaskLens == {0, 1, EditLimit}

NextTask ==
    \/ StatusCb(MaxTaskRecords) /\ UNCHANGED <<schedVars, taskVars, chunkVars, intakeVars, voiceVars>>
    \/ ScheduleGuard /\ UNCHANGED <<schedVars, taskVars, chunkVars, intakeVars, voiceVars>>
    \/ ScheduleEdit /\ UNCHANGED <<schedVars, taskVars, chunkVars, intakeVars, voiceVars>>
    \/ \E h \in Timers : TimerFire(h) /\ UNCHANGED <<schedVars, taskVars, chunkVars, intakeVars, voiceVars>>
    \/ DoEditStart /\ UNCHANGED <<schedVars, taskVars, chunkVars, intakeVars, voiceVars>>
    \/ DoEditFinish /\ UNCHANGED <<schedVars, taskVars, chunkVars, intakeVars, voiceVars>>
    \/ Tick /\ UNCHANGED <<schedVars, taskVars, chunkVars, intakeVars, voiceVars>>
    \/ \E raised \in BOOLEAN, len \in TaskLens, n \in 1..MaxChunks :
           WorkerReturn(raised, len, len = 0, n) /\ UNCHANGED <<schedVars, chunkVars, intakeVars, voiceVars>>
    \/ RunnerAfterReasoning /\ UNCHANGED <<schedVars, chunkVars, intakeVars, voiceVars>>
    \/ \E ok \in BOOLEAN : RunnerResume(ok) /\ UNCHANGED <<schedVars, chunkVars, intakeVars, voiceVars>>
    \/ \E q \in SegQueues, ok \in BOOLEAN : RunnerVoice(q, ok) /\ UNCHANGED <<schedVars, chunkVars, intakeVars, voiceVars>>
    \/ \E ok \in BOOLEAN : MergeDone(ok) /\ UNCHANGED <<schedVars, chunkVars, intakeVars, voiceVars>>
    \/ RunnerCancel /\ UNCHANGED <<schedVars, chunkVars, intakeVars, voiceVars>>

SpecTask == Init /\ [][NextTask]_vars

\* the same runner with a reasoning call that reports no progress
NextDelivery ==
    \/ \E raised, blank \in BOOLEAN, len \in FinalLens, n \in 1..MaxChunks :
           WorkerReturn(raised, len, blank, n) /\ UNCHANGED <<schedVars, chunkVars, intakeVars, voiceVars>>
    \/ RunnerAfterReasoning /\ UNCHANGED <<schedVars, chunkVars, intakeVars, voiceVars>>
    \/ \E ok \in BOOLEAN : RunnerResume(ok) /\ UNCHANGED <<schedVars, chunkVars, intakeVars, voiceVars>>
    \/ \E q \in SegQueues, ok \in BOOLEAN : RunnerVoice(q, ok) /\ UNCHANGED <<schedVars, chunkVars, intakeVars, voiceVars>>
    \/ \E ok \in BOOLEAN : MergeDone(ok) /\ UNCHANGED <<schedVars, chunkVars, intakeVars, voiceVars>>
    \/ RunnerCancel /\ UNCHANGED <<schedVars, chunkVars, intakeVars, voiceVars>>

SpecDelivery == Init /\ [][NextDelivery]_vars

(***************************************************************************)
(* The chunker of _send_long_text_async (the part before the send loop).   *)
(* A text is a sequence of characters; "a" stands for any character that   *)
(* is neither whitespace nor one of . ? !, "." for the three sentence      *)
(* ends, " " and "\n" for whitespace.                                      *)
(***************************************************************************)
Alphabet == {"a", ".", " ", "\n"}

\* what \s and str.strip() take for whitespace
Whitespace == {" ", "\n"}

\* [\.\?\!]
SentenceEnd == {"."}

Texts == UNION {[1..n -> Alphabet] : n \in 0..MaxLen}

Limits == 1..MaxLimit

\* not s.strip()
IsBlank(s) == \A i \in 1..Len(s) : s[i] \in Whitespace

\* str.strip()
Strip(s) ==
    IF IsBlank(s) THEN <<>>
    ELSE LET nw == {i \in 1..Len(s) : s[i] \notin Whitespace}
             first == CHOOSE i \in nw : \A j \in nw : i <= j
             last == CHOOSE i \in nw : \A j \in nw : j <= i
         IN  SubSeq(s, first, last)

RECURSIVE SplitParas(_)
\* text.split("\n\n"): cut at the leftmost "\n\n", then go on behind it
SplitParas(s) ==
    LET cuts == {i \in 1..(Len(s) - 1) : s[i] = "\n" /\ s[i + 1] = "\n"}
    IN  IF cuts = {} THEN <<s>>
        ELSE LET i == CHOOSE c \in cuts : \A d \in cuts : c <= d
             IN  <<SubSeq(s, 1, i - 1)>> \o SplitParas(SubSeq(s, i + 2, Len(s)))

RECURSIVE SplitSents(_)
\* re.split(r"(?<=[\.\?\!])\s+", para): cut at the leftmost run of whitespace
\* that follows a sentence end, drop the whole run, then go on behind it
SplitSents(s) ==
    LET cuts == {i \in 2..Len(s) : s[i - 1] \in SentenceEnd /\ s[i] \in Whitespace}
    IN  IF cuts = {} THEN <<s>>
        ELSE LET i == CHOOSE c \in cuts : \A d \in cuts : c <= d
                 rest == {j \in i..Len(s) : s[j] \notin Whitespace}
                 k == IF rest = {} THEN Len(s) + 1
                      ELSE CHOOSE c \in rest : \A d \in rest : c <= d
             IN  <<SubSeq(s, 1, i - 1)>> \o SplitSents(SubSeq(s, k, Len(s)))

\* the long sentence is appended whole
SlicesWhole(s, size) == IF s = <<>> THEN <<>> ELSE <<s>>

RECURSIVE Slices(_, _)
\* for i in range(0, len(sent), chunk_size): chunks.append(sent[i : i + chunk_size])
Slices(s, size) ==
    IF s = <<>> THEN <<>>
    ELSE IF Len(s) <= size THEN <<s>>
    ELSE <<SubSeq(s, 1, size)>> \o Slices(SubSeq(s, size + 1, Len(s)), size)

\* the buffer is appended even when it is empty
FlushAlways(buffer, chunks) == Append(chunks, buffer)

\* the buffer is thrown away
FlushDrop(buffer, chunks) == chunks

\* if buffer: chunks.append(buffer)
Flush(buffer, chunks) == IF buffer # <<>> THEN Append(chunks, buffer) ELSE chunks

RECURSIVE PackSents(_, _, _, _)
\* for sent in re.split(...): the state (buffer, chunks) after the loop
PackSents(sents, buffer, chunks, chunk_size) ==
    IF sents = <<>> THEN [buffer |-> buffer, chunks |-> chunks]
    ELSE LET sent == Head(sents) IN
         IF Len(buffer) + Len(sent) + 1 <= chunk_size
         THEN PackSents(Tail(sents), Strip(buffer \o <<" ">> \o sent), chunks,
                        chunk_size)
         ELSE PackSents(Tail(sents), <<>>,
                        Flush(buffer, chunks) \o Slices(sent, chunk_size),
                        chunk_size)

RECURSIVE PackParas(_, _, _, _)
\* for para in paras: the state (buffer, chunks) after the loop
PackParas(paras, buffer, chunks, chunk_size) ==
    IF paras = <<>> THEN [buffer |-> buffer, chunks |-> chunks]
    ELSE LET para == Head(paras) IN
         IF Len(buffer) + Len(para) + 2 <= chunk_size
         THEN PackParas(Tail(paras), Strip(buffer \o <<"\n", "\n">> \o para),
                        chunks, chunk_size)
         ELSE IF Len(para) <= chunk_size
         THEN PackParas(Tail(paras), para, Flush(buffer, chunks), chunk_size)
         ELSE LET r == PackSents(SplitSents(para), <<>>, Flush(buffer, chunks),
                                 chunk_size)
              IN  PackParas(Tail(paras), r.buffer, r.chunks, chunk_size)

\* the list `chunks` the send loop iterates over
Chunks(text, chunk_size) ==
    IF IsBlank(text) THEN <<>>
    ELSE LET r == PackParas(SplitParas(text), <<>>, <<>>, chunk_size)
         IN  Flush(r.buffer, r.chunks)

\* _send_long_text_async is called with a text and a chunk size and has
\* built its chunk list
SendLongText(text, chunk_size) ==
    /\ cpc = "idle"
    /\ cpc' = "chunked"
    /\ ctext' = text
    /\ climit' = chunk_size
    /\ cchunks' = Chunks(text, chunk_size)

\* one call, with any text and any chunk size
NextChunker ==
    /\ cpc = "idle"
    /\ \E text \in Texts, chunk_size \in Limits :
           SendLongText(text, chunk_size) /\ UNCHANGED <<schedVars, statusVars, taskVars, intakeVars, voiceVars>>

SpecChunker == Init /\ [][NextChunker]_vars

(***************************************************************************)
(* _handle, steps 6 to 8: what one inbound update goes through before the  *)
(* submit step (step 9, where Inbound above takes over).  Positions are    *)
(* the awaits of the handler:                                              *)
(*   get_file, download   the voice note is fetched                        *)
(*   transcode            no await: the loop thread is in                  *)
(*                        subprocess.run(ffmpeg) and whisper's transcribe  *)
(*   voice_error          except Exception: send_message("Voice note       *)
(*                        error: ...")                                     *)
(*   cmd_reply            the reply of a private slash-command is sent     *)
(*   filter               asyncio.to_thread(chat_asm.filter_callback, text)*)
(*   submit               step 9 is reached: the request is started or     *)
(*                        queued                                           *)
(*   returned, raised     the handler is over without a request            *)
(* The text is "" (none), "plain", "cmd" (one of the four slash-commands,  *)
(* well-formed) or "slash" (any other text that starts with "/").          *)
(***************************************************************************)
ChatTypes == {"private", "group"}

TextKinds == {"", "plain", "cmd", "slash"}

\* do_infer = private or msg.voice or wants_reply or mention or reply to the bot
DoInfer(ct, voice, w, men, rtb) ==
    \/ ct = "private"
    \/ voice
    \/ w
    \/ men
    \/ rtb

\* steps 7 and 8 up to the next await, for the text t the handler has by then:
\* a private slash-command is answered; any other non-empty text goes to
\* filter_callback; with no text wants_reply stays False and do_infer decides
AfterText(ct, voice, t, men, rtb) ==
    IF ct = "private" /\ t = "cmd" THEN "cmd_reply"
    ELSE IF t # "" THEN "filter"
    ELSE IF DoInfer(ct, voice, FALSE, men, rtb) THEN "submit"
    ELSE "returned"

\* the handler goes on behind the try statement of step 6 with text t
Proceed(t) ==
    /\ mtext' = t
    /\ ipc' = AfterText(chat_type, has_voice, t, mention, reply_to_bot)

\* an update passes the filter (TEXT | VOICE) & ~COMMAND and _handle runs up
\* to its first await of step 6 or later
Update(ct, voice, t, men, rtb) ==
    /\ ipc = "idle"
    /\ voice <=> t = ""
    /\ voice => ~men
    /\ chat_type' = ct
    /\ has_voice' = voice
    /\ mention' = men
    /\ reply_to_bot' = rtb
    /\ mtext' = t
    /\ ipc' = IF voice /\ t = "" THEN "get_file"
              ELSE AfterText(ct, voice, t, men, rtb)
    /\ UNCHANGED <<voiceFailed, voiceNotices>>

\* except Exception as ex: await send_message("Voice note error: {ex}", ...)
VoiceExcept(step) ==
    /\ voiceFailed' = step
    /\ voiceNotices' = voiceNotices + 1
    /\ ipc' = "voice_error"
    /\ UNCHANGED mtext

\* get_file returns or raises
GetFileResume(ok) ==
    /\ ipc = "get_file"
    /\ IF ok THEN /\ ipc' = "download"
                  /\ UNCHANGED <<mtext, voiceFailed, voiceNotices>>
       ELSE VoiceExcept("get_file")
    /\ UNCHANGED <<chat_type, has_voice, mention, reply_to_bot>>

\* download_to_drive returns or raises; after it the handler enters
\* subprocess.run(ffmpeg) and _WHISPER.transcribe with no await in between
DownloadResume(ok) ==
    /\ ipc = "download"
    /\ IF ok THEN /\ ipc' = "transcode"
                  /\ UNCHANGED <<mtext, voiceFailed, voiceNotices>>
       ELSE VoiceExcept("download")
    /\ UNCHANGED <<chat_type, has_voice, mention, reply_to_bot>>

\* ffmpeg and whisper have run on the loop thread: out is "ffmpeg" or
\* "whisper" for the step that raised, or "ok" with transcript t
TranscodeDone(out, t) ==
    /\ ipc = "transcode"
    /\ out # "ok" => t = ""
    /\ IF out = "ok"
       THEN \* text = result.get("text", "").strip() or text
            /\ Proceed(t)
            /\ UNCHANGED <<voiceFailed, voiceNotices>>
       ELSE VoiceExcept(out)
    /\ UNCHANGED <<chat_type, has_voice, mention, reply_to_bot>>

\* the send of the voice-note error notice returns, and the handler goes on
\* behind the try statement with the text it had, or raises
VoiceNoticeResume(ok) ==
    /\ ipc = "voice_error"
    /\ IF ok THEN Proceed(mtext)
       ELSE ipc' = "raised" /\ UNCHANGED mtext
    /\ UNCHANGED <<chat_type, has_voice, mention, reply_to_bot, voiceFailed,
                   voiceNotices>>

\* the reply of a slash-command is sent (or the send raises); return
CmdResume(ok) ==
    /\ ipc = "cmd_reply"
    /\ ipc' = IF ok THEN "returned" ELSE "raised"
    /\ UNCHANGED <<chat_type, has_voice, mtext, mention, reply_to_bot,
                   voiceFailed, voiceNotices>>

\* filter_callback returns w (or raises: wants_reply = False)
FilterResume(w) ==
    /\ ipc = "filter"
    /\ ipc' = IF DoInfer(chat_type, has_voice, w, mention, reply_to_bot)
              THEN "submit" ELSE "returned"
    /\ UNCHANGED <<chat_type, has_voice, mtext, mention, reply_to_bot,
                   voiceFailed, voiceNotices>>

NextIntake ==
    \/ \E ct \in ChatTypes, voice, men, rtb \in BOOLEAN, t \in TextKinds :
           Update(ct, voice, t, men, rtb)
               /\ UNCHANGED <<schedVars, statusVars, taskVars, chunkVars, voiceVars>>
    \/ \E ok \in BOOLEAN :
           GetFileResume(ok) /\ UNCHANGED <<schedVars, statusVars, taskVars, chunkVars, voiceVars>>
    \/ \E ok \in BOOLEAN :
           DownloadResume(ok) /\ UNCHANGED <<schedVars, statusVars, taskVars, chunkVars, voiceVars>>
    \/ \E out \in {"ok", "ffmpeg", "whisper"}, t \in TextKinds :
           TranscodeDone(out, t) /\ UNCHANGED <<schedVars, statusVars, taskVars, chunkVars, voiceVars>>
    \/ \E ok \in BOOLEAN :
           VoiceNoticeResume(ok) /\ UNCHANGED <<schedVars, statusVars, taskVars, chunkVars, voiceVars>>
    \/ \E ok \in BOOLEAN :
           CmdResume(ok) /\ UNCHANGED <<schedVars, statusVars, taskVars, chunkVars, voiceVars>>
    \/ \E w \in BOOLEAN :
           FilterResume(w) /\ UNCHANGED <<schedVars, statusVars, taskVars, chunkVars, voiceVars>>

SpecIntake == Init /\ [][NextIntake]_vars

\* the handler of one voice note on the loop while the reasoning call of a
\* running task reports progress from its worker thread
NextLoop ==
    \/ StatusCb(MaxTaskRecords) /\ UNCHANGED <<schedVars, taskVars, chunkVars, intakeVars, voiceVars>>
    \/ ScheduleGuard /\ UNCHANGED <<schedVars, taskVars, chunkVars, intakeVars, voiceVars>>
    \/ ScheduleEdit /\ UNCHANGED <<schedVars, taskVars, chunkVars, intakeVars, voiceVars>>
    \/ \E h \in Timers : TimerFire(h) /\ UNCHANGED <<schedVars, taskVars, chunkVars, intakeVars, voiceVars>>
    \/ DoEditStart /\ UNCHANGED <<schedVars, taskVars, chunkVars, intakeVars, voiceVars>>
    \/ DoEditFinish /\ UNCHANGED <<schedVars, taskVars, chunkVars, intakeVars, voiceVars>>
    \/ Tick /\ UNCHANGED <<schedVars, taskVars, chunkVars, intakeVars, voiceVars>>
    \/ \E ct \in ChatTypes, rtb \in BOOLEAN :
           Update(ct, TRUE, "", FALSE, rtb)
               /\ UNCHANGED <<schedVars, statusVars, taskVars, chunkVars, voiceVars>>
    \/ \E ok \in BOOLEAN :
           GetFileResume(ok) /\ UNCHANGED <<schedVars, statusVars, taskVars, chunkVars, voiceVars>>
    \/ \E ok \in BOOLEAN :
           DownloadResume(ok) /\ UNCHANGED <<schedVars, statusVars, taskVars, chunkVars, voiceVars>>
    \/ \E out \in {"ok", "ffmpeg", "whisper"}, t \in TextKinds :
           TranscodeDone(out, t) /\ UNCHANGED <<schedVars, statusVars, taskVars, chunkVars, voiceVars>>
    \/ \E ok \in BOOLEAN :
           VoiceNoticeResume(ok) /\ UNCHANGED <<schedVars, statusVars, taskVars, chunkVars, voiceVars>>
    \/ \E ok \in BOOLEAN :
           CmdResume(ok) /\ UNCHANGED <<schedVars, statusVars, taskVars, chunkVars, voiceVars>>
    \/ \E w \in BOOLEAN :
           FilterResume(w) /\ UNCHANGED <<schedVars, statusVars, taskVars, chunkVars, voiceVars>>

SpecLoop == Init /\ [][NextLoop]_vars

(***************************************************************************)
(* The voice stage of two runner tasks of one chat.  Both use chat_asm.tts *)
(* of assemblers[chat_id]: one _file_q of text items waiting for synthesis *)
(* and one _ogg_q of finished segment files.  Positions of a runner:       *)
(*   created     scheduled by create_task, body not yet entered            *)
(*   reasoning   await asyncio.to_thread(run_with_meta_context, ...)        *)
(*   delivering  the awaits of the text delivery                           *)
(*   join        await asyncio.to_thread(chat_asm.tts._file_q.join)        *)
(*   joined      join() has returned in its thread, the task not resumed   *)
(*   send_voice  the queue is drained; the awaits of the voice reply       *)
(***************************************************************************)

\* the tasks, other than t, that have items among the removed ones `gone`
\* and have not finished
Robbed(t, gone) ==
    {u \in VoiceTasks \ {t} :
        vpc[u] # "done" /\ \E i \in 1..Len(gone) : gone[i] = u}

\* the first step of runner(): both queues are emptied with get_nowait()
\* (no task_done() is called), then the reasoning call is dispatched
VoiceFirstStep(t) ==
    /\ vpc[t] = "created"
    /\ file_q' = <<>>
    /\ ogg_q' = <<>>
    /\ robbed' = robbed \cup Robbed(t, file_q \o ogg_q)
    /\ vpc' = [vpc EXCEPT ![t] = "reasoning"]
    /\ UNCHANGED <<unfinished, taskOggs>>

\* the reasoning call returns an answer and the text delivery begins
VoiceReasoningDone(t) ==
    /\ vpc[t] = "reasoning"
    /\ vpc' = [vpc EXCEPT ![t] = "delivering"]
    /\ UNCHANGED <<file_q, ogg_q, unfinished, taskOggs, robbed>>

\* chat_asm.tts.enqueue(final) puts n text items of the answer into _file_q,
\* then the join is handed to a thread
VoiceEnqueue(t, n) ==
    /\ vpc[t] = "delivering"
    /\ file_q' = file_q \o [i \in 1..n |-> t]
    /\ unfinished' = unfinished + n
    /\ vpc' = [vpc EXCEPT ![t] = "join"]
    /\ UNCHANGED <<ogg_q, taskOggs, robbed>>

\* the synthesis thread of the TTSManager takes one text item, writes its
\* segment file, puts the path into _ogg_q and calls task_done()
TtsWork ==
    /\ file_q # <<>>
    /\ file_q' = Tail(file_q)
    /\ ogg_q' = Append(ogg_q, Head(file_q))
    /\ unfinished' = unfinished - 1
    /\ UNCHANGED <<vpc, taskOggs, robbed>>

\* Queue.join() returns once every item put has been marked done
VoiceJoinReturn(t) ==
    /\ vpc[t] = "join"
    /\ unfinished = 0
    /\ vpc' = [vpc EXCEPT ![t] = "joined"]
    /\ UNCHANGED <<file_q, ogg_q, unfinished, taskOggs, robbed>>

\* the task resumes: while True: p = _ogg_q.get_nowait(); oggs.append(p)
VoiceDrain(t) ==
    /\ vpc[t] = "joined"
    /\ taskOggs' = [taskOggs EXCEPT ![t] = ogg_q]
    /\ ogg_q' = <<>>
    /\ robbed' = robbed \cup Robbed(t, ogg_q)
    /\ vpc' = [vpc EXCEPT ![t] = "send_voice"]
    /\ UNCHANGED <<file_q, unfinished>>

\* the voice reply has been sent (or there was nothing to send)
VoiceSent(t) ==
    /\ vpc[t] = "send_voice"
    /\ vpc' = [vpc EXCEPT ![t] = "done"]
    /\ UNCHANGED <<file_q, ogg_q, unfinished, taskOggs, robbed>>

NextVoice ==
    \/ \E t \in VoiceTasks : VoiceFirstStep(t) /\ UNCHANGED <<schedVars, statusVars, taskVars, chunkVars, intakeVars>>
    \/ \E t \in VoiceTasks : VoiceReasoningDone(t) /\ UNCHANGED <<schedVars, statusVars, taskVars, chunkVars, intakeVars>>
    \/ \E t \in VoiceTasks, n \in 0..MaxSegs :
           VoiceEnqueue(t, n) /\ UNCHANGED <<schedVars, statusVars, taskVars, chunkVars, intakeVars>>
    \/ TtsWork /\ UNCHANGED <<schedVars, statusVars, taskVars, chunkVars, intakeVars>>
    \/ \E t \in VoiceTasks : VoiceJoinReturn(t) /\ UNCHANGED <<schedVars, statusVars, taskVars, chunkVars, intakeVars>>
    \/ \E t \in VoiceTasks : VoiceDrain(t) /\ UNCHANGED <<schedVars, statusVars, taskVars, chunkVars, intakeVars>>
    \/ \E t \in VoiceTasks : VoiceSent(t) /\ UNCHANGED <<schedVars, statusVars, taskVars, chunkVars, intakeVars>>

SpecVoice == Init /\ [][NextVoice]_vars


(***************************************************************************)
(* Properties of the delivery of one task, checked under SpecDelivery.     *)
(***************************************************************************)

\* the steps whose failure is the task's failure: the reasoning call, the
\* final edit, a chunk send, the voice merge, the voice send
FailingSteps == {"reasoning", "edit_final", "send_chunk", "merge", "send_voice"}

\* C6: when the reasoning call or a delivery step of the task has raised, one
\* failure notice has been issued, and a task never issues a second one.
C6_OneFailureNotice ==
    /\ errNotices <= 1
    /\ failed \cap FailingSteps # {} => errNotices = 1

\* a task has ended after a chunk send raised and the notice was issued
C6_Witness ==
    /\ rpc = "done"
    /\ "send_chunk" \in failed
    /\ errNotices = 1

(***************************************************************************)
(* Properties of the status reporter, checked under SpecStatus.            *)
(***************************************************************************)
CeilDiv(a, b) == (a + b - 1) \div b

\* C7: the progress edits issued for status_cb calls that fall in a window of
\* W seconds number at most ceil(W / min_interval) + 1.  The window taken is
\* the whole time since the first call, counted in full seconds.
C7_EditsBounded ==
    recs > 0 => editsIssued <= CeilDiv(now - firstRecAt + 1, min_interval) + 1

ArmedTimers == {h \in Timers : timers[h].st = "armed"}

\* nothing of the reporter is in progress or scheduled
Quiescent ==
    /\ wpc = "reasoning"
    /\ editq = 0
    /\ inflight = 0
    /\ ArmedTimers = {}

\* the text of the last edit issued
LastView == Rendered(SubSeq(history, 1, lastIssuedLen))

\* C8: for a reporter that is not stopped, once nothing more is in progress
\* or scheduled, the last edit issued shows the most recently recorded event.
C8_LatestEventShown ==
    (~disabled /\ Quiescent /\ history # <<>>)
        => \E i \in 1..Len(LastView) : LastView[i] = history[Len(history)]

C10_NoEditAfterCancel == [][cancelled => editsIssued' = editsIssued]_vars

(***************************************************************************)
(* Properties of the chunker, checked under SpecChunker.                   *)
(***************************************************************************)
RECURSIVE JoinAll(_)
\* the chunks one after the other
JoinAll(cs) == IF cs = <<>> THEN <<>> ELSE Head(cs) \o JoinAll(Tail(cs))

\* the text with all whitespace deleted
NoWs(s) == SelectSeq(s, LAMBDA c : c \notin Whitespace)

\* C12: every chunk has length > 0 and length <= limit, and the chunk list is
\* empty exactly when the text is empty or whitespace-only.
C12_ChunkLengths ==
    cpc = "chunked" =>
        /\ \A i \in 1..Len(cchunks) :
               Len(cchunks[i]) > 0 /\ Len(cchunks[i]) <= climit
        /\ cchunks = <<>> <=> IsBlank(ctext)

\* a text with a blank line that is longer than the limit was cut into three
\* chunks or more, one of them as long as the limit
C12_Witness ==
    /\ cpc = "chunked"
    /\ Len(ctext) > climit
    /\ \E i \in 1..(Len(ctext) - 1) : ctext[i] = "\n" /\ ctext[i + 1] = "\n"
    /\ Len(cchunks) >= 3
    /\ \E i \in 1..Len(cchunks) : Len(cchunks[i]) = climit

\* C13: the chunks in order, with all whitespace deleted, are the text with
\* all whitespace deleted.
C13_ContentPreserved ==
    cpc = "chunked" => NoWs(JoinAll(cchunks)) = NoWs(ctext)

\* a text with whitespace, a blank line and a sentence end followed by
\* whitespace was cut into three chunks or more
C13_Witness ==
    /\ cpc = "chunked"
    /\ \E i \in 1..(Len(ctext) - 1) : ctext[i] = "\n" /\ ctext[i + 1] = "\n"
    /\ \E i \in 1..(Len(ctext) - 1) : ctext[i] = "." /\ ctext[i + 1] = " "
    /\ Len(cchunks) >= 3
    /\ Len(NoWs(ctext)) >= 4

\* the text has no blank line and no sentence end followed by whitespace
NoBoundary(s) ==
    \A i \in 1..(Len(s) - 1) :
        /\ ~(s[i] = "\n" /\ s[i + 1] = "\n")
        /\ ~(s[i] \in SentenceEnd /\ s[i + 1] \in Whitespace)

\* ceil(L / limit) chunks of exactly limit characters, except possibly the
\* last, whose concatenation is the text
FixedWindows ==
    /\ Len(cchunks) = CeilDiv(Len(ctext), climit)
    /\ \A i \in 1..(Len(cchunks) - 1) : Len(cchunks[i]) = climit
    /\ JoinAll(cchunks) = ctext

\* C14 as stated: every text longer than the limit, with no blank line and no
\* sentence boundary, is cut into ceil(L / limit) fixed windows.
C14_HardSliceWindows ==
    (cpc = "chunked" /\ Len(ctext) > climit /\ NoBoundary(ctext)) => FixedWindows

\* C14 amended: the same for every such text that is not whitespace-only.
C14_HardSliceWindowsNonBlank ==
    (cpc = "chunked" /\ Len(ctext) > climit /\ NoBoundary(ctext) /\ ~IsBlank(ctext))
        => FixedWindows

\* a text of more than two windows, with whitespace and a sentence end inside
\* but no boundary, was cut
C14_Witness ==
    /\ cpc = "chunked"
    /\ Len(ctext) > 2 * climit
    /\ climit >= 2
    /\ NoBoundary(ctext)
    /\ ~IsBlank(ctext)
    /\ \E i \in 1..Len(ctext) : ctext[i] \in Whitespace
    /\ \E i \in 1..Len(ctext) : ctext[i] \in SentenceEnd
    /\ Len(cchunks) = 3

\* the text is one paragraph of two or more sentences, none empty, none with
\* whitespace at either end, none longer than the limit
PlainSentences(s, limit) ==
    /\ \A i \in 1..Len(s) : s[i] # "\n"
    /\ Len(SplitSents(s)) >= 2
    /\ \A i \in 1..Len(SplitSents(s)) :
           LET sent == SplitSents(s)[i]
           IN  sent # <<>> /\ Strip(sent) = sent /\ Len(sent) <= limit

\* C28: inside a paragraph longer than the limit whose sentences all fit, a
\* chunk boundary lies between two consecutive sentences only when the next
\* sentence plus one separator would not fit behind what the chunk before
\* the boundary holds.
C28_SentencesPackedGreedily ==
    (cpc = "chunked" /\ Len(ctext) > climit /\ PlainSentences(ctext, climit)) =>
        \A i \in 1..(Len(cchunks) - 1) :
            Len(cchunks[i]) + 1 + Len(SplitSents(cchunks[i + 1])[1]) > climit

\* C31: every chunk the chunker produces contains at least one character
\* that is not whitespace.
C31_NoBlankChunk ==
    cpc = "chunked" => \A i \in 1..Len(cchunks) : ~IsBlank(cchunks[i])



(***************************************************************************)
(* Properties of the delivery of one task, checked under SpecDelivery.     *)
(***************************************************************************)

\* the awaits in the body of the try statement of runner()
TryAwaits == {"reasoning", "del_empty", "edit_final", "pin", "sleep", "unpin",
              "del_large", "send_chunk", "pin_chunk", "unpin_chunk", "tts_join",
              "send_voice"}

\* edit_message_text(placeholder, "Previous request cancelled.")
CancelNotice == CallAt("cancelnote", 0)

\* C11: when the task is cancelled in the body of its try statement, the
\* cancellation notice is issued at once, and from then on the task issues no
\* error notice and makes no other transport call.
C11_CancelStopsDelivery ==
    [][cancelledAt' \in TryAwaits =>
           /\ errNotices' = 0
           /\ IF cancelledAt = "none"
              THEN emitted' = Append(emitted, CancelNotice)
              ELSE emitted' \in {emitted, Append(emitted, CancelNotice)}]_vars

\* the calls of the task that delete, edit or send a text message
TextCalls ==
    SelectSeq(emitted,
              LAMBDA c : c.op \in {"del_empty", "edit_final", "del_large", "send_chunk"})

C16_EmptyResult ==
    /\ [][(result' = "empty" /\ rpc' # "reasoning" /\ cancelledAt' # "reasoning")
             => /\ emitted' = <<CallAt("del_empty", 0)>>
                /\ errNotices' = 0
                /\ pinned' = {}
                /\ clip' = <<>>
                /\ rpc' \in {"del_empty", "done"}]_vars
    /\ [][rpc = "del_empty" => rpc' = "done"]_vars

\* a whitespace-only answer: the delete of the placeholder raised and the
\* task has ended
C16_Witness ==
    /\ result = "empty"
    /\ finalLen > 0
    /\ "del_empty" \in failed
    /\ rpc = "done"

\* the send_voice calls of the task
VoiceCalls == SelectSeq(emitted, LAMBDA c : c.op = "send_voice")

\* the task delivered a non-empty answer and ended without error or cancel
Completed ==
    /\ rpc = "done"
    /\ result \in {"small", "large"}
    /\ errNotices = 0
    /\ ~cancelled

\* C17: a completed task has sent no voice file when every drained segment
\* is empty, and exactly one otherwise; the file holds every non-empty
\* segment once, in the order of production; the send is the last call of
\* the task and replies to the triggering message.
C17_OneVoiceReply ==
    Completed =>
        IF \A i \in 1..Len(oggq) : oggq[i] = 0
        THEN VoiceCalls = <<>>
        ELSE /\ Len(VoiceCalls) = 1
             /\ emitted[Len(emitted)] = [op |-> "send_voice", msg |-> 0, reply |-> TRUE]
             /\ \A i \in 1..Len(oggq) : oggq[i] > 0 <=> \E j \in 1..Len(clip) : clip[j] = i
             /\ \A j, k \in 1..Len(clip) : j < k => clip[j] < clip[k]

\* a completed task has sent a clip merged from two segments
C17_Witness ==
    /\ Completed
    /\ Len(clip) = 2
    /\ Len(VoiceCalls) = 1

PinSteps == {"pin", "unpin", "pin_chunk", "unpin_chunk"}

\* C18: when nothing but pin and unpin calls of the task has raised, no error
\* notice is issued.
C18_PinFailureNotFatal ==
    (failed # {} /\ failed \subseteq PinSteps /\ ~cancelled) => errNotices = 0

\* C19: when the task has ended, an unpin call was made for every message it
\* has pinned and not unpinned.
C19_NothingLeftPinned ==
    rpc = "done" =>
        \A m \in pinned :
            \E i \in 1..Len(emitted) :
                emitted[i].op \in {"unpin", "unpin_chunk"} /\ emitted[i].msg = m

\* C21: when the task has ended, no temporary audio file it drained or
\* created (segment files, merged clip) is left on disk.
C21_TempFilesRemoved == rpc = "done" => tmpfiles = {}

\* C23: when the ffmpeg run of a multi-segment merge has failed, no send_voice
\* call is made, no clip is opened, and the failure notice has been issued.
C23_MergeFailureReported ==
    "merge" \in failed => (VoiceCalls = <<>> /\ clip = <<>> /\ errNotices = 1)

\* the merge of two segments failed and the task has ended
C23_Witness ==
    /\ "merge" \in failed
    /\ Len(Oggs(oggq)) = 2
    /\ errNotices = 1
    /\ rpc = "done"

\* C30: once the final answer was written into the placeholder (the small
\* reply's edit returned and the pin was called), the task makes no other
\* call that edits the placeholder.
C30_AnswerNotOverwritten ==
    \A i, j \in 1..Len(emitted) :
        (i < j /\ emitted[i].op = "pin") => emitted[j].op # "cancelnote"

(***************************************************************************)
(* Properties of one task with its reporter, checked under SpecTask.       *)
(***************************************************************************)

\* C24: whenever the runner is past the reasoning call, by whichever exit,
\* stop_cb has been called; and when the task has ended no flush timer of
\* its reporter is armed.
C24_StopOnEveryExit ==
    /\ rpc # "reasoning" => disabled
    /\ rpc = "done" => ArmedTimers = {}

(***************************************************************************)
(* Properties of the intake of one update, checked under SpecIntake.       *)
(***************************************************************************)

\* C20: when a step of the voice intake has raised, the voice-note error
\* notice has been issued once and the handler never reaches the submit step.
C20_VoiceFailureStopsIntake ==
    voiceFailed # "none" => (voiceNotices = 1 /\ ipc # "submit")

\* C25: for one status reporter at most one deferred flush timer is
\* outstanding at any instant.
C25_OneTimerOutstanding == Cardinality(ArmedTimers) <= 1

C26_OneKeyingScheme ==
    /\ \A t \in Reqs :
           Unfinished(t) =>
               LET prev == running[RunningLookupKey(reqKey[t][1], reqKey[t][2])]
               IN  prev # 0 /\ reqKey[prev] = reqKey[t]
    /\ \A tk \in TableKeys :
           running[tk] # 0 =>
               tk = RunningLookupKey(reqKey[running[tk]][1], reqKey[running[tk]][2])

(***************************************************************************)
(* Properties of the loop shared by a handler and a running task, checked  *)
(* under SpecLoop.                                                         *)
(***************************************************************************)

\* C27: while the merge of a task or the transcode and transcription of a
\* voice note is in progress, a progress flush that is ready to run on the
\* loop can run.
C27_LoopRunsDuringAudioWork ==
    ((rpc = "merge" \/ ipc = "transcode") /\ editq > 0) => ENABLED DoEditStart

(***************************************************************************)
(* Properties of the voice stage of two tasks of one chat, checked under   *)
(* SpecVoice.                                                              *)
(***************************************************************************)

\* C29: the segments a task drains for its voice clip were all synthesized
\* from that task's own answer, and no task's start-up clearing or draining
\* removes items of another task that has not finished.
C29_OwnSegmentsOnly ==
    /\ \A t \in VoiceTasks : \A i \in 1..Len(taskOggs[t]) : taskOggs[t][i] = t
    /\ robbed = {}

Spec == Init /\ [][Next]_vars

(***************************************************************************)
(* Properties of the scheduler, checked under Spec.                        *)
(***************************************************************************)
Started == {startSeq[i] : i \in 1..Len(startSeq)}

StartIndex(r) == CHOOSE i \in 1..Len(startSeq) : startSeq[i] = r

TasksOf(k) == {t \in Reqs : Unfinished(t) /\ reqKey[t] = k}

\* C1: for every key (conversation_id, sender_id) at most one runner task is
\* executing at any instant.
C1_OneTaskPerKey == \A k \in Keys : Cardinality(TasksOf(k)) <= 1

\* C2: the submit step starts the request at once exactly when no unfinished
\* task of its key exists, and queues it otherwise.
C2_SubmitDecision ==
    \A r \in Reqs :
        /\ outcome[r] = "STARTED_NOW" => ~busyAtSubmit[r]
        /\ outcome[r] = "QUEUED" => busyAtSubmit[r]
        /\ hpc[r] = "notice" => busyAtSubmit[r]
        /\ hpc[r] = "placeholder" => ~busyAtSubmit[r]

C5_CompletionOnEveryExit ==
    \A t \in Reqs :
        TaskDone(t) =>
            /\ finRuns[t] = 1
            /\ \A tk \in TableKeys : running[tk] # t
            /\ TasksOf(reqKey[t]) = {} => ~PrevBusy(reqKey[t])
====
